---- MODULE Spec2Model ----
(***************************************************************************)
(* The task-processing loop of run_gemini_tasks.py: main()'s polling loop, *)
(* process_task() step by step, the three directories it works on, and the *)
(* external actors (the producer of task files, the gemini tool, the       *)
(* operator's Ctrl+C, I/O errors).                                         *)
(*                                                                         *)
(* Text (file names, prompt contents, stderr) is a tuple of code points,   *)
(* so that str.lower, str.strip, the substring test and os.path.splitext   *)
(* are computed rather than assumed.  The tool's stdout is written to the  *)
(* output file verbatim and is kept as an opaque string.                   *)
(***************************************************************************)
EXTENDS Integers, Sequences, FiniteSets, TLC

\* ---------------------------------------------------------------- bounds
\* Files the producer places in tasks_todo over a run.
MaxFiles == 2
\* Invocations the tool answers with a rate-limit error over a run.
MaxRateLimits == 1
\* I/O errors (exceptions) raised inside process_task over a run.
MaxErrors == 1
\* Loop-level errors (os.listdir raising) in a row.
MaxLoopErrors == 2

\* ------------------------------------------------------------------ text
\* RATE_LIMIT_KEYWORDS: "quota", "rate limit exceeded",
\* "resource has been exhausted".
RATE_LIMIT_KEYWORDS ==
  { <<113, 117, 111, 116, 97>>,
    <<114, 97, 116, 101, 32, 108, 105, 109, 105, 116, 32, 101, 120, 99, 101,
      101, 100, 101, 100>>,
    <<114, 101, 115, 111, 117, 114, 99, 101, 32, 104, 97, 115, 32, 98, 101,
      101, 110, 32, 101, 120, 104, 97, 117, 115, 116, 101, 100>> }

\* str.lower on ASCII text.
Lower(s) ==
  [k \in DOMAIN s |-> IF s[k] >= 65 /\ s[k] <= 90 THEN s[k] + 32 ELSE s[k]]

\* Python's < on str: lexicographic by code point, a proper prefix is smaller.
RECURSIVE StrLess(_, _)
StrLess(a, b) ==
  IF b = <<>> THEN FALSE
  ELSE IF a = <<>> THEN TRUE
  ELSE IF Head(a) # Head(b) THEN Head(a) < Head(b)
  ELSE StrLess(Tail(a), Tail(b))

\* Python's `needle in hay` on str.
Contains(hay, needle) ==
  \E k \in 0..(Len(hay) - Len(needle)) :
     SubSeq(hay, k + 1, k + Len(needle)) = needle

\* The characters str.strip() removes (ASCII white space).
IsSpace(c) == c \in {9, 10, 11, 12, 13, 28, 29, 30, 31, 32}

\* str.strip().
RECURSIVE LStrip(_)
LStrip(s) == IF s # <<>> /\ IsSpace(Head(s)) THEN LStrip(Tail(s)) ELSE s

RECURSIVE RStrip(_)
RStrip(s) ==
  IF s # <<>> /\ IsSpace(s[Len(s)]) THEN RStrip(SubSeq(s, 1, Len(s) - 1)) ELSE s

Strip(s) == RStrip(LStrip(s))

\* `not prompt_content`: white space is not stripped.
IsBlankNoStrip(content) == content = <<>>

\* `not prompt_content.strip()`.
IsBlank(content) == Strip(content) = <<>>

\* any(keyword in stderr.lower() for keyword in RATE_LIMIT_KEYWORDS).
HasRateLimitKeyword(stderr) ==
  \E kw \in RATE_LIMIT_KEYWORDS : Contains(Lower(stderr), kw)

\* os.path.splitext(name)[0] for a bare file name: cut at the last dot,
\* unless only dots precede it.
Dot == 46

LastDot(name) ==
  IF \E k \in DOMAIN name : name[k] = Dot
  THEN CHOOSE k \in DOMAIN name :
         name[k] = Dot /\ \A j \in DOMAIN name : name[j] = Dot => j <= k
  ELSE 0

Stem(name) ==
  LET d == LastDot(name) IN
  IF d > 0 /\ \E j \in 1..(d - 1) : name[j] # Dot
  THEN SubSeq(name, 1, d - 1)
  ELSE name

\* f"output_for_{stem}.txt"
OutputName(name) ==
  <<111, 117, 116, 112, 117, 116, 95, 102, 111, 114, 95>> \o Stem(name)
     \o <<46, 116, 120, 116>>

\* sorted(names, key=str.lower): a stable sort, so names whose keys are equal
\* keep the order os.listdir gave them.
RECURSIVE InsertByKey(_, _)
InsertByKey(sorted, x) ==
  IF sorted = <<>> THEN <<x>>
  ELSE IF StrLess(Lower(x), Lower(Head(sorted)))
       THEN <<x>> \o sorted
       ELSE <<Head(sorted)>> \o InsertByKey(Tail(sorted), x)

\* sorted(names): the key is left out.
RECURSIVE InsertPlain(_, _)
InsertPlain(sorted, x) ==
  IF sorted = <<>> THEN <<x>>
  ELSE IF StrLess(x, Head(sorted))
       THEN <<x>> \o sorted
       ELSE <<Head(sorted)>> \o InsertPlain(Tail(sorted), x)

RECURSIVE SortedPlain(_)
SortedPlain(seq) ==
  IF seq = <<>> THEN <<>>
  ELSE InsertPlain(SortedPlain(SubSeq(seq, 1, Len(seq) - 1)), seq[Len(seq)])

RECURSIVE SortedByLower(_)
SortedByLower(seq) ==
  IF seq = <<>> THEN <<>>
  ELSE InsertByKey(SortedByLower(SubSeq(seq, 1, Len(seq) - 1)), seq[Len(seq)])

\* The orders in which os.listdir may return the entries of a directory.
ListDir(dir) ==
  { s \in [1..Cardinality(DOMAIN dir) -> DOMAIN dir] :
      \A i, j \in DOMAIN s : i # j => s[i] # s[j] }

\* ----------------------------------------------------- the outside world
\* File names the producer draws from: "B.t", "a.t", "a.m".
NAMES == { <<66, 46, 116>>, <<97, 46, 116>>, <<97, 46, 109>> }

\* The bytes of a task file that are not valid UTF-8 (a lone 0xFF): reading the
\* file with encoding='utf-8' raises UnicodeDecodeError every time.
BadBytes == << 255 >>

\* Task contents: "", " \n", "hi", and the undecodable file.
CONTENTS == { <<>>, <<32, 10>>, <<104, 105>>, BadBytes }

\* What the tool may do: exit code, stdout, stderr.
\*   exit 0, "world", ""                     exit 0, "again", "Quota exceeded"
\*   exit 1, "", "boom"                      exit 2, "world", "boom"
\*   exit 1, "", "Quota exceeded"            exit 1, "again", "RATE LIMIT EXCEEDED"
TOOL_RESULTS ==
  { [rc |-> 0, out |-> "world", err |-> <<>>],
    [rc |-> 0, out |-> "again",
     err |-> <<81, 117, 111, 116, 97, 32, 101, 120, 99, 101, 101, 100, 101, 100>>],
    [rc |-> 1, out |-> "", err |-> <<98, 111, 111, 109>>],
    [rc |-> 2, out |-> "world", err |-> <<98, 111, 111, 109>>],
    [rc |-> 1, out |-> "",
     err |-> <<81, 117, 111, 116, 97, 32, 101, 120, 99, 101, 101, 100, 101, 100>>],
    [rc |-> 1, out |-> "again",
     err |-> <<82, 65, 84, 69, 32, 76, 73, 77, 73, 84, 32, 69, 88, 67, 69, 69,
               68, 69, 68>>] }

\* ----------------------------------------------------------------- state
VARIABLES
  todo,       \* tasks_todo: file name -> content
  done,       \* tasks_done: file name -> content
  output,     \* gemini_output: file name -> content
  pc,         \* where main() is
  tasks,      \* main's `tasks`, the listing of the current batch
  idx,        \* position of the for loop in `tasks`
  prompt,     \* process_task's prompt_content
  result,     \* process_task's `result` (returncode, stdout, stderr)
  ret,        \* how the last process_task call returned
  snap,       \* done and output directories as they were at the call
  processed,  \* names process_task was called on in this batch, in order
  placed,     \* names the producer has placed so far
  invCount,   \* file name -> number of tool invocations for it
  retried,    \* file name -> invocations after which it was left pending
  lastRes,    \* file name -> Outcome of its latest invocation
  nRate,      \* rate-limit answers so far
  nErr,       \* I/O errors inside process_task so far
  loopErrs,   \* loop-level errors since the last listing that succeeded
  inflight,   \* tool processes started and not yet ended
  sinceInv    \* what has happened since the tool last exited: "none" (it
              \* has not been run), "solo" / "multi" (no delay or pause yet;
              \* it ran in a listing of one / of several names), "slept"

vars ==
  << todo, done, output, pc, tasks, idx, prompt, result, ret, snap,
     processed, placed, invCount, retried, lastRes, nRate, nErr, loopErrs,
     inflight, sinceInv >>

Empty == [x \in {} |-> <<>>]

NoResult == [rc |-> -1, out |-> "", err |-> <<>>]
NoRet == [val |-> TRUE, via |-> "none"]
NoSnap == [done |-> Empty, out |-> Empty]

Running ==
  { "list", "idle", "call", "read", "invoke", "classify", "archive",
    "returned", "delay", "pause", "recover" }

\* task_filename of the call in progress
cur == tasks[idx]

Init ==
  /\ todo = Empty
  /\ done = Empty
  /\ output = Empty
  /\ pc = "list"
  /\ tasks = <<>>
  /\ idx = 0
  /\ prompt = <<>>
  /\ result = NoResult
  /\ ret = NoRet
  /\ snap = NoSnap
  /\ processed = <<>>
  /\ placed = {}
  /\ invCount = [n \in NAMES |-> 0]
  /\ retried = [n \in NAMES |-> 0]
  /\ lastRes = [n \in NAMES |-> [rc |-> -1, out |-> ""]]
  /\ nRate = 0
  /\ nErr = 0
  /\ loopErrs = 0
  /\ inflight = 0
  /\ sinceInv = "none"

\* ----------------------------------------------------------- file system
\* A copy in place of a move: the source file is left behind.
MoveSrcKept(dir, n) == dir

\* shutil.move(src, dst): what the source directory holds afterwards.
MoveSrc(dir, n) == [x \in DOMAIN dir \ {n} |-> dir[x]]

\* A removal in place of a move: nothing arrives in the destination.
MoveDstLost(src, dst, n) == dst

\* shutil.move(src, dst): what the destination directory holds afterwards
\* (a file of that name already there is replaced).
MoveDst(src, dst, n) ==
  [x \in DOMAIN dst \cup {n} |-> IF x = n THEN src[n] ELSE dst[x]]

\* The file is created but the text never reaches it.
WriteFileEmpty(dir, name, text) ==
  [x \in DOMAIN dir \cup {name} |-> IF x = name THEN "" ELSE dir[x]]

\* open(path, 'w') followed by write(text).
WriteFile(dir, name, text) ==
  [x \in DOMAIN dir \cup {name} |-> IF x = name THEN text ELSE dir[x]]

\* --------------------------------------------------------------- producer
\* The external producer drops a new task file into tasks_todo; it never
\* touches a file that is already there, and a name is used once.
Produce ==
  /\ pc \in Running
  /\ Cardinality(placed) < MaxFiles
  /\ \E n \in NAMES \ placed, c \in CONTENTS :
       /\ todo' = [x \in DOMAIN todo \cup {n} |-> IF x = n THEN c ELSE todo[x]]
       /\ placed' = placed \cup {n}
  /\ UNCHANGED << done, output, pc, tasks, idx, prompt, result, ret, snap,
                  processed, invCount, retried, lastRes, nRate, nErr,
                  loopErrs, inflight, sinceInv >>

\* ------------------------------------------------------------------- main
\* The listing is taken once and kept for later cycles.
ListTasksCached ==
  /\ pc = "list"
  /\ \E order \in ListDir(todo) :
       /\ tasks' = IF tasks # <<>> THEN tasks ELSE SortedByLower(order)
       /\ IF tasks' = <<>>
          THEN pc' = "idle" /\ idx' = 0
          ELSE pc' = "call" /\ idx' = 1
  /\ processed' = <<>>
  /\ ret' = NoRet
  /\ loopErrs' = 0
  /\ UNCHANGED << todo, done, output, prompt, result, snap, placed, invCount,
                  retried, lastRes, nRate, nErr, inflight, sinceInv >>

\* main line 134-140: list tasks_todo, sorted case-insensitively; an empty
\* listing leads to the 10 s sleep, any other one starts a batch.
ListTasks ==
  /\ pc = "list"
  /\ \E order \in ListDir(todo) :
       /\ tasks' = SortedByLower(order)
       /\ IF tasks' = <<>>
          THEN pc' = "idle" /\ idx' = 0
          ELSE pc' = "call" /\ idx' = 1
  /\ processed' = <<>>
  /\ ret' = NoRet
  /\ loopErrs' = 0
  /\ UNCHANGED << todo, done, output, prompt, result, snap, placed, invCount,
                  retried, lastRes, nRate, nErr, inflight, sinceInv >>

\* No `except Exception` around the loop body: the error leaves main().
ListRaiseFatal ==
  /\ pc = "list"
  /\ loopErrs < MaxLoopErrors
  /\ loopErrs' = loopErrs + 1
  /\ pc' = "crashed"
  /\ UNCHANGED << todo, done, output, tasks, idx, prompt, result, ret, snap,
                  processed, placed, invCount, retried, lastRes, nRate, nErr,
                  inflight, sinceInv >>

\* main line 134, 158-160: os.listdir raises (the directory is unreadable);
\* the loop-level handler starts the 60 s recovery sleep.
ListRaise ==
  /\ pc = "list"
  /\ loopErrs < MaxLoopErrors
  /\ loopErrs' = loopErrs + 1
  /\ pc' = "recover"
  /\ UNCHANGED << todo, done, output, tasks, idx, prompt, result, ret, snap,
                  processed, placed, invCount, retried, lastRes, nRate, nErr,
                  inflight, sinceInv >>

\* main line 137-138: time.sleep(10) ends; continue.
IdleWake ==
  /\ pc = "idle"
  /\ pc' = "list"
  /\ UNCHANGED << todo, done, output, tasks, idx, prompt, result, ret, snap,
                  processed, placed, invCount, retried, lastRes, nRate, nErr,
                  loopErrs, inflight, sinceInv >>

\* main line 160: time.sleep(60) ends; the while loop goes round.
RecoverWake ==
  /\ pc = "recover"
  /\ pc' = "list"
  /\ UNCHANGED << todo, done, output, tasks, idx, prompt, result, ret, snap,
                  processed, placed, invCount, retried, lastRes, nRate, nErr,
                  loopErrs, inflight, sinceInv >>

\* ----------------------------------------------------------- process_task
\* process_task returns `val` to main line 142.
Return(val, via) ==
  /\ pc' = "returned"
  /\ ret' = [val |-> val, via |-> via]

\* A caught exception: line 119-121.
Raise ==
  /\ nErr < MaxErrors
  /\ nErr' = nErr + 1
  /\ Return(TRUE, "exception")

\* process_task line 64-75: called on tasks[idx]; a file that is gone returns
\* True at once, otherwise the content is read.
ReadTask ==
  /\ pc = "call"
  /\ processed' = Append(processed, cur)
  /\ snap' = [done |-> done, out |-> output]
  /\ cur \in DOMAIN todo => todo[cur] # BadBytes
  /\ IF cur \notin DOMAIN todo
     THEN Return(TRUE, "gone") /\ prompt' = <<>>
     ELSE pc' = "read" /\ prompt' = todo[cur] /\ ret' = NoRet
  /\ UNCHANGED << todo, done, output, tasks, idx, result, placed, invCount,
                  retried, lastRes, nRate, nErr,
                  loopErrs, inflight, sinceInv >>

\* process_task line 74-75, 119-121: open or read raises.
ReadRaise ==
  /\ pc = "call"
  /\ cur \in DOMAIN todo
  /\ processed' = Append(processed, cur)
  /\ snap' = [done |-> done, out |-> output]
  /\ Raise
  /\ UNCHANGED << todo, done, output, tasks, idx, prompt, result, placed,
                  invCount, retried, lastRes, nRate,
                  loopErrs, inflight, sinceInv >>

\* process_task line 74-75, 119-121: f.read() cannot decode the file; the
\* except clause prints and returns True, and the file stays where it is.
ReadUndecodable ==
  /\ pc = "call"
  /\ cur \in DOMAIN todo
  /\ todo[cur] = BadBytes
  /\ processed' = Append(processed, cur)
  /\ snap' = [done |-> done, out |-> output]
  /\ prompt' = <<>>
  /\ Return(TRUE, "exception")
  /\ UNCHANGED << todo, done, output, tasks, idx, result, placed, invCount,
                  retried, lastRes, nRate, nErr, loopErrs, inflight,
                  sinceInv >>

\* process_task line 77-80: blank content; the file is moved to tasks_done.
EmptyTask ==
  /\ pc = "read"
  /\ IsBlank(prompt)
  /\ done' = MoveDst(todo, done, cur)
  /\ todo' = MoveSrc(todo, cur)
  /\ Return(TRUE, "empty")
  /\ UNCHANGED << output, tasks, idx, prompt, result, snap, processed, placed,
                  invCount, retried, lastRes, nRate, nErr,
                  loopErrs, inflight, sinceInv >>

\* process_task line 79, 119-121: the move of a blank task raises.
EmptyTaskRaise ==
  /\ pc = "read"
  /\ IsBlank(prompt)
  /\ Raise
  /\ UNCHANGED << todo, done, output, tasks, idx, prompt, result, snap,
                  processed, placed, invCount, retried, lastRes, nRate,
                  loopErrs, inflight, sinceInv >>

\* The tool is started and not waited for (Popen in place of run): the call
\* returns at once and the task is archived.
LaunchDetached ==
  /\ pc = "read"
  /\ ~IsBlank(prompt)
  /\ invCount' = [invCount EXCEPT ![cur] = @ + 1]
  /\ inflight' = inflight + 1
  /\ done' = MoveDst(todo, done, cur)
  /\ todo' = MoveSrc(todo, cur)
  /\ Return(TRUE, "success")
  /\ UNCHANGED << output, tasks, idx, prompt, result, snap, processed, placed,
                  retried, lastRes, nRate, nErr, loopErrs, sinceInv >>

\* process_task line 89-97: subprocess.run starts the tool with the prompt
\* on its stdin and blocks until it exits.
Launch ==
  /\ pc = "read"
  /\ ~IsBlank(prompt)
  /\ pc' = "invoke"
  /\ invCount' = [invCount EXCEPT ![cur] = @ + 1]
  /\ inflight' = inflight + 1
  /\ UNCHANGED << todo, done, output, tasks, idx, prompt, result, ret, snap,
                  processed, placed, retried, lastRes, nRate, nErr,
                  loopErrs, sinceInv >>

\* process_task line 89-97, 119-121: the process cannot be started.
LaunchRaise ==
  /\ pc = "read"
  /\ ~IsBlank(prompt)
  /\ Raise
  /\ UNCHANGED << todo, done, output, tasks, idx, prompt, result, snap,
                  processed, placed, invCount, retried, lastRes, nRate,
                  loopErrs, inflight, sinceInv >>

\* The keywords looked for in stderr as printed, not lower-cased.
IsRateLimitedCaseSensitive(res) ==
  res.rc # 0 /\ \E kw \in RATE_LIMIT_KEYWORDS : Contains(res.err, kw)

\* The exit code is not looked at: a keyword in stderr is enough.
IsRateLimitedAnyExit(res) == HasRateLimitKeyword(res.err)

\* The test of line 99-100.
IsRateLimited(res) == res.rc # 0 /\ HasRateLimitKeyword(res.err)

\* What is remembered of an invocation: whether it exited 0 (rc 0) or not
\* (rc 1), and the stdout of an exit-0 one, the only stdout the code uses.
Outcome(r) ==
  IF r.rc = 0 THEN [rc |-> 0, out |-> r.out] ELSE [rc |-> 1, out |-> ""]

\* process_task line 89-97: the tool exits; its exit code and both streams
\* are captured.
ToolExit ==
  /\ pc = "invoke"
  /\ \E r \in TOOL_RESULTS :
       /\ IsRateLimited(r) => nRate < MaxRateLimits
       /\ nRate' = IF IsRateLimited(r) THEN nRate + 1 ELSE nRate
       /\ result' = r
       /\ lastRes' = [lastRes EXCEPT ![cur] = Outcome(r)]
  /\ pc' = "classify"
  /\ inflight' = inflight - 1
  /\ sinceInv' = IF Len(tasks) = 1 THEN "solo" ELSE "multi"
  /\ UNCHANGED << todo, done, output, tasks, idx, prompt, ret, snap, processed,
                  placed, invCount, retried, nErr,
                  loopErrs >>

\* The rate-limited task is archived like a failed one before False is
\* returned.
RateLimitedArchives ==
  /\ pc = "classify"
  /\ IsRateLimited(result)
  /\ done' = MoveDst(todo, done, cur)
  /\ todo' = MoveSrc(todo, cur)
  /\ Return(FALSE, "rate")
  /\ retried' = [retried EXCEPT ![cur] = @ + 1]
  /\ UNCHANGED << output, tasks, idx, prompt, result, snap, processed, placed,
                  invCount, lastRes, nRate, nErr, loopErrs, inflight,
                  sinceInv >>

\* process_task line 99-103: rate limit; nothing is moved, False is returned.
RateLimited ==
  /\ pc = "classify"
  /\ IsRateLimited(result)
  /\ Return(FALSE, "rate")
  /\ retried' = [retried EXCEPT ![cur] = @ + 1]
  /\ UNCHANGED << todo, done, output, tasks, idx, prompt, result, snap,
                  processed, placed, invCount, lastRes, nRate, nErr,
                  loopErrs, inflight, sinceInv >>

\* process_task line 105-110: any other non-zero exit; the task is moved to
\* tasks_done.
Failed ==
  /\ pc = "classify"
  /\ ~IsRateLimited(result)
  /\ result.rc # 0
  /\ done' = MoveDst(todo, done, cur)
  /\ todo' = MoveSrc(todo, cur)
  /\ Return(TRUE, "failed")
  /\ UNCHANGED << output, tasks, idx, prompt, result, snap, processed, placed,
                  invCount, retried, lastRes, nRate, nErr,
                  loopErrs, inflight, sinceInv >>

\* process_task line 109, 119-121: the move of a failed task raises.
FailedRaise ==
  /\ pc = "classify"
  /\ ~IsRateLimited(result)
  /\ result.rc # 0
  /\ Raise
  /\ retried' = [retried EXCEPT ![cur] = @ + 1]
  /\ UNCHANGED << todo, done, output, tasks, idx, prompt, result, snap,
                  processed, placed, invCount, lastRes, nRate,
                  loopErrs, inflight, sinceInv >>

\* process_task line 112-115: exit 0; stdout is written to the output file.
Record ==
  /\ pc = "classify"
  /\ ~IsRateLimited(result)
  /\ result.rc = 0
  /\ output' = WriteFile(output, OutputName(cur), result.out)
  /\ pc' = "archive"
  /\ UNCHANGED << todo, done, tasks, idx, prompt, result, ret, snap, processed,
                  placed, invCount, retried, lastRes, nRate, nErr,
                  loopErrs, inflight, sinceInv >>

\* process_task line 114-115, 119-121: the write raises, either in open()
\* (nothing changed) or after open() has truncated the file.
RecordRaise ==
  /\ pc = "classify"
  /\ ~IsRateLimited(result)
  /\ result.rc = 0
  /\ \E truncated \in BOOLEAN :
       output' = IF truncated THEN WriteFile(output, OutputName(cur), "")
                 ELSE output
  /\ Raise
  /\ retried' = [retried EXCEPT ![cur] = @ + 1]
  /\ UNCHANGED << todo, done, tasks, idx, prompt, result, snap, processed,
                  placed, invCount, lastRes, nRate,
                  loopErrs, inflight, sinceInv >>

\* process_task line 116-117: the task is moved to tasks_done.
Archive ==
  /\ pc = "archive"
  /\ done' = MoveDst(todo, done, cur)
  /\ todo' = MoveSrc(todo, cur)
  /\ Return(TRUE, "success")
  /\ UNCHANGED << output, tasks, idx, prompt, result, snap, processed, placed,
                  invCount, retried, lastRes, nRate, nErr,
                  loopErrs, inflight, sinceInv >>

\* process_task line 116, 119-121: the move after the write raises.
ArchiveRaise ==
  /\ pc = "archive"
  /\ Raise
  /\ retried' = [retried EXCEPT ![cur] = @ + 1]
  /\ UNCHANGED << todo, done, output, tasks, idx, prompt, result, snap,
                  processed, placed, invCount, lastRes, nRate,
                  loopErrs, inflight, sinceInv >>

\* ------------------------------------------------------- main, continued
\* process_task's frame is gone once main has looked at what it returned.
Forget ==
  /\ prompt' = <<>>
  /\ result' = NoResult
  /\ snap' = NoSnap

\* The for loop of line 141 takes the next name, or ends and the while loop
\* goes round (line 154).
NextTask ==
  IF idx < Len(tasks)
  THEN pc' = "call" /\ idx' = idx + 1
  ELSE pc' = "list" /\ idx' = idx

\* The inter-task delay is left out.
AfterTaskNoDelay ==
  /\ pc = "returned"
  /\ IF ~ret.val
     THEN pc' = "pause" /\ UNCHANGED idx
     ELSE NextTask
  /\ Forget
  /\ UNCHANGED << todo, done, output, tasks, ret, processed, placed, invCount,
                  retried, lastRes, nRate, nErr, loopErrs, inflight, sinceInv >>

\* main line 143-152: after process_task; False starts the long pause, True
\* starts the inter-task delay when the listing had more than one name.
AfterTask ==
  /\ pc = "returned"
  /\ IF ~ret.val
     THEN pc' = "pause" /\ UNCHANGED idx
     ELSE IF Len(tasks) > 1
          THEN pc' = "delay" /\ UNCHANGED idx
          ELSE NextTask
  /\ Forget
  /\ UNCHANGED << todo, done, output, tasks, ret, processed, placed, invCount,
                  retried, lastRes, nRate, nErr,
                  loopErrs, inflight, sinceInv >>

\* main line 152: the inter-task delay ends.
DelayWake ==
  /\ pc = "delay"
  /\ NextTask
  /\ sinceInv' = IF sinceInv = "none" THEN "none" ELSE "slept"
  /\ UNCHANGED << todo, done, output, tasks, prompt, result, ret, snap,
                  processed, placed, invCount, retried, lastRes, nRate, nErr,
                  loopErrs, inflight >>

\* The break of line 148 is missing: after the pause the for loop goes on.
PauseWakeNoBreak ==
  /\ pc = "pause"
  /\ NextTask
  /\ sinceInv' = IF sinceInv = "none" THEN "none" ELSE "slept"
  /\ UNCHANGED << todo, done, output, tasks, prompt, result, ret, snap,
                  processed, placed, invCount, retried, lastRes, nRate, nErr,
                  loopErrs, inflight >>

\* main line 146-148: the rate-limit pause ends; break leaves the batch.
PauseWake ==
  /\ pc = "pause"
  /\ pc' = "list"
  /\ sinceInv' = IF sinceInv = "none" THEN "none" ELSE "slept"
  /\ UNCHANGED << todo, done, output, tasks, idx, prompt, result, ret, snap,
                  processed, placed, invCount, retried, lastRes, nRate, nErr,
                  loopErrs, inflight >>

\* main line 155-157, 160: Ctrl+C.  Inside the try block KeyboardInterrupt
\* reaches the handler of line 155 (process_task's `except Exception` does
\* not catch it); raised by the sleep of line 160, inside the handler of line
\* 158, no handler is left and it leaves main().  Either way the process
\* ends and its variables are gone; subprocess.run kills a tool it is
\* waiting for before it lets the interrupt through.
Interrupt ==
  /\ pc \in Running
  /\ pc' = IF pc = "recover" THEN "aborted" ELSE "stopped"
  /\ tasks' = <<>>
  /\ idx' = 0
  /\ prompt' = <<>>
  /\ result' = NoResult
  /\ ret' = NoRet
  /\ snap' = NoSnap
  /\ processed' = <<>>
  /\ inflight' = 0
  /\ sinceInv' = "none"
  /\ loopErrs' = 0
  /\ UNCHANGED << todo, done, output, placed, invCount, retried, lastRes,
                  nRate, nErr >>

Next ==
  \/ Produce
  \/ ListTasks
  \/ ListRaise
  \/ IdleWake
  \/ RecoverWake
  \/ ReadTask
  \/ ReadRaise
  \/ ReadUndecodable
  \/ EmptyTask
  \/ EmptyTaskRaise
  \/ Launch
  \/ LaunchRaise
  \/ ToolExit
  \/ RateLimited
  \/ Failed
  \/ FailedRaise
  \/ Record
  \/ RecordRaise
  \/ Archive
  \/ ArchiveRaise
  \/ AfterTask
  \/ DelayWake
  \/ PauseWake
  \/ Interrupt

Spec == Init /\ [][Next]_vars

\* One step of main(): everything but the producer and the operator's Ctrl+C.
LoopStep ==
  \/ ListTasks \/ ListRaise \/ IdleWake \/ RecoverWake
  \/ ReadTask \/ ReadRaise \/ ReadUndecodable
  \/ EmptyTask \/ EmptyTaskRaise
  \/ Launch \/ LaunchRaise \/ ToolExit
  \/ RateLimited \/ Failed \/ FailedRaise
  \/ Record \/ RecordRaise \/ Archive \/ ArchiveRaise
  \/ AfterTask \/ DelayWake \/ PauseWake

\* main() is a sequential process that keeps running while it can: every
\* sleep ends and every tool process exits (subprocess.run returns).
FairSpec == Spec /\ WF_vars(LoopStep)

\* =================================================================
\* Properties
\* =================================================================

\* process_task has returned to main line 142 and main has not yet acted.
Returned == pc = "returned"

\* The call that has just returned ran the tool, and no error was raised
\* while the task was handled (the except clause of line 119 was not entered;
\* that case is C5's).
InvokedNoError == Returned /\ result.rc # -1 /\ ret.via # "exception"

\* Content that is empty or consists of white space only.
EmptyOrWhitespace(content) == \A k \in DOMAIN content : IsSpace(content[k])

\* C1: when process_task returns for a task with non-blank content whose
\* invocation exited 0 (no error raised while handling it), the task file is
\* in tasks_done, is no longer in tasks_todo, and output_for_<stem>.txt holds
\* exactly the stdout captured from that invocation.
C1_SuccessArchivedWithOutput ==
  (InvokedNoError /\ result.rc = 0) =>
     /\ ~EmptyOrWhitespace(prompt)
     /\ cur \in DOMAIN done
     /\ cur \notin DOMAIN todo
     /\ done[cur] = prompt
     /\ OutputName(cur) \in DOMAIN output
     /\ output[OutputName(cur)] = result.out

C1_Witness ==
  /\ Returned
  /\ result.rc = 0
  /\ ret.via = "success"
  /\ cur \in DOMAIN done
  /\ output[OutputName(cur)] = "again"

\* C2: when process_task returns for a task whose invocation exited non-zero
\* with a rate-limit keyword in stderr (in any case), the task file is still
\* in tasks_todo, tasks_done and gemini_output are as they were at the call,
\* and the value returned is False, the pause signal.
C2_RateLimitedStaysPending ==
  (Returned /\ result.rc \notin {0, -1} /\ HasRateLimitKeyword(result.err)) =>
     /\ cur \in DOMAIN todo
     /\ todo[cur] = prompt
     /\ done = snap.done
     /\ output = snap.out
     /\ ret.val = FALSE

C2_Witness ==
  /\ Returned
  /\ result.rc = 1
  /\ result.err = <<81, 117, 111, 116, 97, 32, 101, 120, 99, 101, 101, 100, 101, 100>>
  /\ ret.val = FALSE
  /\ cur \in DOMAIN todo

\* C3: when process_task returns for a task whose invocation exited non-zero
\* with no rate-limit keyword in stderr (no error raised while handling it),
\* the task file has moved from tasks_todo to tasks_done, gemini_output is as
\* it was at the call, and the value returned is True (Continue).
C3_FailedArchivedNoOutput ==
  (InvokedNoError /\ result.rc # 0 /\ ~HasRateLimitKeyword(result.err)) =>
     /\ cur \in DOMAIN done
     /\ cur \notin DOMAIN todo
     /\ done[cur] = prompt
     /\ output = snap.out
     /\ ret.val = TRUE

C3_Witness ==
  /\ Returned
  /\ result.rc = 2
  /\ ret.via = "failed"
  /\ cur \in DOMAIN done
  /\ OutputName(cur) \notin DOMAIN output

\* C4: when process_task returns for a pending task whose content is empty
\* or white space only (no error raised while handling it), the task file is
\* in tasks_done and not in tasks_todo, the tool has never been invoked for
\* it, gemini_output is as it was at the call, and the value returned is True.
C4_BlankArchivedNotInvoked ==
  (Returned /\ ret.via \notin {"gone", "exception"} /\ EmptyOrWhitespace(prompt)) =>
     /\ cur \in DOMAIN done
     /\ cur \notin DOMAIN todo
     /\ invCount[cur] = 0
     /\ result = NoResult
     /\ output = snap.out
     /\ ret.val = TRUE

C4_Witness ==
  /\ Returned
  /\ ret.via = "empty"
  /\ prompt = <<32, 10>>
  /\ cur \in DOMAIN done
  /\ invCount[cur] = 0

\* C5 (as claimed): when process_task returns after catching an unexpected
\* error, the task file is in tasks_done and not in tasks_todo, and the value
\* returned is True.
C5_CaughtErrorArchives ==
  (Returned /\ ret.via = "exception") =>
     /\ cur \in DOMAIN done
     /\ cur \notin DOMAIN todo
     /\ ret.val = TRUE

\* What the code does on a caught error: it returns True and moves nothing.
C5_CaughtErrorLeavesPending ==
  (Returned /\ ret.via = "exception") =>
     /\ cur \in DOMAIN todo
     /\ cur \notin DOMAIN done
     /\ done = snap.done
     /\ ret.val = TRUE

\* C6: every name the producer has placed is a file of exactly one of
\* tasks_todo and tasks_done (the move is one step, so this is every state
\* outside a move).
C6_ExactlyOneOfPendingDone ==
  \A n \in placed : (n \in DOMAIN todo) # (n \in DOMAIN done)

C6_Witness ==
  \E n, m \in placed :
     /\ n \in DOMAIN todo /\ n \notin DOMAIN done
     /\ m \in DOMAIN done /\ m \notin DOMAIN todo
     /\ pc = "invoke"

\* A file in tasks_done stays there unchanged, and the tool is not invoked
\* for its name again.
DoneIsFinal ==
  \A n \in DOMAIN done :
     /\ n \in DOMAIN done'
     /\ done'[n] = done[n]
     /\ invCount'[n] = invCount[n]

\* The latest invocation for n ended in an ordinary failure and n was archived.
EndedInFailure(n) == n \in DOMAIN done /\ lastRes[n].rc \notin {0, -1}

FailedInvokedOnce == \A n \in NAMES : EndedInFailure(n) => invCount[n] = 1

FailedNotRetried ==
  \A n \in NAMES : EndedInFailure(n) => invCount[n] = retried[n] + 1

\* C7 (as claimed): no step invokes the tool for a name that is in tasks_done
\* or removes or replaces its file there, and a task that ended with an
\* ordinary failure has been invoked exactly once over the whole run.
C7_DoneFinalFailedInvokedOnce == [][DoneIsFinal /\ FailedInvokedOnce']_vars

\* C7 (amended): no step invokes the tool for a name that is in tasks_done or
\* removes or replaces its file there, and a task that ended with an ordinary
\* failure has been invoked once more than the number of its earlier attempts
\* that left it pending (rate-limited, or cut short by a caught error): the
\* failing attempt is its last.
C7_DoneFinalFailedNotRetried == [][DoneIsFinal /\ FailedNotRetried']_vars

C7_Witness ==
  \E n \in NAMES :
     /\ EndedInFailure(n)
     /\ invCount[n] = 2
     /\ retried[n] = 1
     /\ nErr = 0
     /\ pc = "idle"

\* C8 (as claimed): in every state, a task that is in tasks_done after an
\* invocation that exited 0 has its output file present, holding that
\* invocation's stdout.
C8_DoneSuccessHasOutput ==
  \A n \in DOMAIN done :
     lastRes[n].rc = 0 =>
        /\ OutputName(n) \in DOMAIN output
        /\ output[OutputName(n)] = lastRes[n].out

\* What holds of the code: the same, for a task whose output file name no
\* other placed task shares.
C8_UnlessOutputNameShared ==
  \A n \in DOMAIN done :
     (lastRes[n].rc = 0 /\ \A m \in placed \ {n} : OutputName(m) # OutputName(n)) =>
        /\ OutputName(n) \in DOMAIN output
        /\ output[OutputName(n)] = lastRes[n].out

\* main is inside the for loop of line 141.
InBatch ==
  pc \in {"call", "read", "invoke", "classify", "archive", "returned",
          "delay", "pause"}

\* C9: the names process_task has been called on in a batch are the first
\* names of the listing, in the listed order, each once, with none skipped;
\* of two of them the one processed later never has the smaller lower-cased
\* name.
C9_ProcessedInListedOrder ==
  /\ Len(processed) <= Len(tasks)
  /\ processed = SubSeq(tasks, 1, Len(processed))
  /\ InBatch => Len(processed) = IF pc = "call" THEN idx - 1 ELSE idx
  /\ \A j, k \in DOMAIN processed :
        j < k => /\ processed[j] # processed[k]
                 /\ ~StrLess(Lower(processed[k]), Lower(processed[j]))

C9_Witness ==
  /\ processed = << <<97, 46, 116>>, <<66, 46, 116>> >>
  /\ pc = "read"

\* C10 (as claimed): whenever the loop has left its running state, it has
\* done so by the graceful stop (farewell printed, exit status 0).
C10_OnlyGracefulStop == pc \notin Running => pc = "stopped"

\* The three directories.
files == << todo, done, output >>

\* C11: a loop-level error (os.listdir raising) takes the loop to the
\* recovery sleep and nowhere else, however many have occurred in a row; from
\* the recovery sleep the loop's own next step is the listing, with the
\* directories untouched (an interrupt during that sleep is C10's subject);
\* and the loop is never ended by such an error.
C11_LoopErrorRecovers ==
  [][ /\ loopErrs' > loopErrs => pc = "list" /\ pc' = "recover"
      /\ pc = "recover" => pc' \in {"recover", "list", "aborted"}
      /\ (pc = "recover" /\ pc' = "list") => files' = files
      /\ pc' \notin Running => (pc' \in {"stopped", "aborted"} /\ loopErrs' = 0)
    ]_vars

C11_Witness == pc = "list" /\ loopErrs = MaxLoopErrors /\ todo # Empty

\* The outcome of n has been recorded: n was archived after an exit-0
\* invocation, its stdout in the output file derived from its name.
Recorded(n) ==
  /\ n \in DOMAIN done
  /\ lastRes[n].rc = 0
  /\ OutputName(n) \in DOMAIN output
  /\ output[OutputName(n)] = lastRes[n].out

\* C12 (as claimed): once the outcome of a task has been recorded, no later
\* step (all of them taken for other task ids, C7) replaces its output file:
\* each output file belongs to one task id.
C12_OutputNeverReplacedByOther ==
  [][\A n \in NAMES : Recorded(n) => Recorded(n)']_vars

\* What holds of the code: tasks whose names differ in more than the
\* extension have distinct output files.
C12_DistinctStemsDistinctOutputs ==
  \A n, m \in placed : Stem(n) # Stem(m) => OutputName(n) # OutputName(m)

\* The tool is running exactly while main is blocked in subprocess.run.
OneInFlightWhileBlocked ==
  /\ inflight \in {0, 1}
  /\ inflight = 1 <=> pc = "invoke"

\* A step that leaves the loop where it is: no listing, no move, no output
\* write, no sleep begun or ended; at most the producer adds a file, the tool
\* exits, or the operator interrupts.
LoopWaits ==
  /\ done' = done
  /\ output' = output
  /\ \A n \in DOMAIN todo : n \in DOMAIN todo' /\ todo'[n] = todo[n]
  /\ pc' \in {"invoke", "classify", "stopped"}
  /\ pc' # "stopped" => tasks' = tasks /\ idx' = idx /\ processed' = processed

\* C13: at most one tool invocation is in flight, and while one is in flight
\* the loop does nothing: its next step comes only when the tool has exited.
C13_OneInvocationLoopBlocked ==
  [][OneInFlightWhileBlocked' /\ (inflight > 0 => LoopWaits)]_vars

C13_Witness ==
  /\ inflight = 1
  /\ pc = "invoke"
  /\ Cardinality(DOMAIN todo) = 2
  /\ idx = 1

\* C14: once process_task has returned the pause signal, the loop's next
\* step is the start of the long pause and the one after it the fresh listing:
\* no process_task call and no inter-task delay lie between, and no further
\* name of the batch is processed.
C14_PauseEndsBatch ==
  [][ /\ (pc = "returned" /\ ~ret.val) => pc' \in {"returned", "pause", "stopped"}
      /\ pc = "pause" => /\ pc' \in {"pause", "list", "stopped"}
                         /\ ~ret.val
                         /\ pc' # "stopped" => processed' = processed
    ]_vars

C14_Witness ==
  /\ pc = "list"
  /\ ret.via = "rate"
  /\ Len(tasks) = 2
  /\ processed = <<tasks[1]>>
  /\ tasks[2] \in DOMAIN todo

\* The listing that follows a rate-limit pause is being taken: `tasks` and
\* `idx` still name the batch that was cut short, tasks' is the new listing.
RelistAfterPause == pc = "list" /\ ret.via = "rate" /\ pc' \in {"call", "idle"}

\* a's lower-cased name sorts before b's.
Before(a, b) == StrLess(Lower(a), Lower(b))

\* C15 (as claimed): when the listing after a rate-limit pause is taken, the
\* rate-limited task is still in tasks_todo and is the first name of the new
\* listing, whatever else tasks_todo holds.
C15_RateLimitedRetriedFirst ==
  [][RelistAfterPause =>
       /\ cur \in DOMAIN todo
       /\ pc' = "call"
       /\ tasks'[1] = cur]_vars

\* C15 (amended): when the listing after a rate-limit pause is taken, the
\* rate-limited task is still in tasks_todo and is in the new listing, behind
\* no name that sorts after it; it is the first name when every other pending
\* name sorts after it, and is not the first when some pending name sorts
\* before it.
C15_RateLimitedRetriedInOrder ==
  [][RelistAfterPause =>
       /\ cur \in DOMAIN todo
       /\ pc' = "call"
       /\ \E k \in DOMAIN tasks' :
            /\ tasks'[k] = cur
            /\ \A j \in 1..(k - 1) : ~Before(cur, tasks'[j])
       /\ (\A m \in DOMAIN todo \ {cur} : Before(cur, m)) => tasks'[1] = cur
       /\ (\E m \in DOMAIN todo \ {cur} : Before(m, cur)) => tasks'[1] # cur]_vars

C15_Witness ==
  \E n \in DOMAIN todo :
     /\ retried[n] = 1
     /\ invCount[n] = 1
     /\ nErr = 0
     /\ pc = "call"
     /\ idx = 1
     /\ tasks[1] # n
     /\ tasks[2] = n

\* main acts on a True (Continue) return.
AfterContinue == pc = "returned" /\ ret.val /\ pc' \notin {"returned", "stopped"}

\* C16 (as claimed): after a task returns Continue the loop starts the
\* inter-task delay if and only if a further name of the batch remains; after
\* the last one it goes straight back to the listing.
C16_DelayIffMoreRemain ==
  [][AfterContinue => (pc' = "delay" <=> idx < Len(tasks))]_vars

\* What the code does: the delay follows every Continue of a batch whose
\* listing had more than one name, the last one included.
C16_DelayIffSeveralListed ==
  [][AfterContinue => (pc' = "delay" <=> Len(tasks) > 1)]_vars

\* C17: process_task returns False (the pause signal) exactly when the tool
\* was invoked in this call, exited non-zero and printed a rate-limit keyword
\* on stderr; on every other path (file gone, blank content, exit 0 whatever
\* stderr holds, other non-zero exit, caught error) it returns True.
C17_PauseSignalIffRateLimited ==
  Returned =>
     (ret.val = FALSE <=>
        (result.rc \notin {0, -1} /\ HasRateLimitKeyword(result.err)))

C17_Witness ==
  /\ Returned
  /\ result.rc = 0
  /\ HasRateLimitKeyword(result.err)
  /\ ret.val = TRUE
  /\ ret.via = "success"

\* C18 (as claimed): whenever the tool is started, the loop has completed an
\* inter-task delay or a rate-limit pause since the tool last exited.
C18_SleptSinceLastInvocation ==
  pc = "invoke" => sinceInv \in {"none", "slept"}

\* C18 (amended): whenever the tool is started, the loop has completed an
\* inter-task delay or a rate-limit pause since the tool last exited, unless
\* that earlier invocation was for the only name of its listing and this one
\* is for the first name of a later listing.
C18_SleptUnlessSoloBatch ==
  pc = "invoke" =>
     /\ sinceInv # "multi"
     /\ sinceInv = "solo" => idx = 1

C18_Witness ==
  /\ pc = "invoke"
  /\ sinceInv = "solo"
  /\ nErr = 0
  /\ loopErrs = 0
  /\ \E n \in DOMAIN done : invCount[n] = 1

\* The names of the current listing.
Listed == { tasks[i] : i \in 1 .. Len(tasks) }

\* C19: every listing step yields exactly the names pending at that moment;
\* until the next listing step the listing does not change; and while a
\* batch runs a name that is not in its listing is neither handed to
\* process_task, nor invoked, nor moved, whatever its place in the order.
C19_ListingFreshAndFixed ==
  [][ /\ (pc = "list" /\ pc' \in {"call", "idle"}) =>
            /\ Listed' = DOMAIN todo
            /\ Len(tasks') = Cardinality(DOMAIN todo)
      /\ (pc # "list" /\ pc' \in Running) => tasks' = tasks
      /\ Len(processed') > Len(processed) =>
            processed'[Len(processed')] \in Listed
      /\ \A n \in NAMES \ Listed :
            pc # "list" =>
               /\ n \in DOMAIN done' <=> n \in DOMAIN done
               /\ n \in DOMAIN todo => n \in DOMAIN todo'
               /\ invCount'[n] = invCount[n]
    ]_vars

\* A batch whose task was added while an earlier batch was running: the task
\* sorts before one that is already done, and nothing has been retried.
C19_Witness ==
  /\ pc = "call"
  /\ nErr = 0 /\ nRate = 0 /\ loopErrs = 0
  /\ cur \in DOMAIN todo
  /\ \E m \in DOMAIN done : Before(cur, m) /\ invCount[m] = 1

\* C20: with main() running fairly (the producer adds at most MaxFiles files,
\* rate-limit answers number at most MaxRateLimits, every tool process
\* exits), every task file in tasks_todo is eventually in tasks_done, unless
\* the operator stops the process.
C20_EveryTaskEventuallyDone ==
  \A n \in NAMES :
     (n \in DOMAIN todo) ~> (n \in DOMAIN done \/ pc \notin Running)

====
